---- MODULE Spec2Model ----
(***************************************************************************)
(* A model of the bitmap decoder (bmp_parser.py) and of the CMPT365        *)
(* container codec (compressor.py): the sliding-window LZ coder, the       *)
(* palette builder, the index packers, the strategy selector, the          *)
(* container writer and the container reader.                              *)
(*                                                                         *)
(* Bytes are integers 0..255, byte strings are sequences of bytes, and a   *)
(* pixel is a triple <<R, G, B>>.  Python indexes from 0 and TLA+ from 1:  *)
(* At and Slice below take Python's 0-based positions.  A Python exception *)
(* is modelled as a result record whose field err holds the exception's    *)
(* message (ValueError) or its class name (IndexError, ZeroDivisionError). *)
(***************************************************************************)
EXTENDS Integers, Sequences, FiniteSets, TLC

VARIABLES
    pc,       \* the position of the run: which call comes next
    input,    \* what the run was started on (the file or grid chosen by the caller)
    lz,       \* the locals of _lz_compress / _lz_decompress while they loop
    parser,   \* the BMPParser object: bmp_bytes, metadata, color_table, pixel_data
    compressor, \* the locals of BMPCompressor.compress and the file it wrote
    cfile,    \* the container file handed to BMPDecompressor.decompress
    result    \* what decompress returned or raised

vars == <<pc, input, lz, parser, compressor, cfile, result>>

(***************************************************************************)
(* Bounds of the model.                                                    *)
(***************************************************************************)
\* longest byte string handed to _lz_compress in SpecLZ
MaxLzLen == 8
\* most pixels (width * height) of an exhaustively enumerated grid
MaxPixels == 4
\* widest and tallest bitmap synthesized in SpecBMP
MaxBmpWidth == 9
MaxBmpHeight == 2

(***************************************************************************)
(* Python primitives.                                                      *)
(***************************************************************************)
\* An operator's argument is computed only when it is used; Evaluated(v), always
\* true, makes it compute v on the spot.  The long loops below are split in halves
\* (first half, then second half, the steps in the loop's own order) and each half is
\* computed before the next starts, which keeps the evaluation stack shallow.
Evaluated(v) == v = v

Min(a, b) == IF a < b THEN a ELSE b
Max(a, b) == IF a > b THEN a ELSE b
Abs(a) == IF a < 0 THEN -a ELSE a

\* s[i] for 0 <= i < len(s)
At(s, i) == s[i + 1]

\* s[a:b] for a >= 0: clipped to the end of s, never an error
Slice(s, a, b) ==
    LET hi == Min(b, Len(s))
    IN  IF a >= hi THEN <<>> ELSE [i \in 1..(hi - a) |-> s[a + i]]

RECURSIVE Pow2(_)
Pow2(n) == IF n <= 0 THEN 1 ELSE 2 * Pow2(n - 1)

\* int.bit_length() of n >= 0
RECURSIVE bit_length(_)
bit_length(n) == IF n = 0 THEN 0 ELSE 1 + bit_length(n \div 2)

\* int.from_bytes(s, 'big'); the empty string gives 0
RECURSIVE FromBytesBig(_)
FromBytesBig(s) ==
    IF s = <<>> THEN 0
    ELSE 256 * FromBytesBig(SubSeq(s, 1, Len(s) - 1)) + s[Len(s)]

\* int.from_bytes(s, 'little')
RECURSIVE FromBytesLittle(_)
FromBytesLittle(s) ==
    IF s = <<>> THEN 0 ELSE s[1] + 256 * FromBytesLittle(Tail(s))

\* int.from_bytes(s, 'little', signed=True): two's complement on len(s) bytes, the
\* top byte counted as signed (the model's integers are 32 bits wide, which holds
\* every signed 4-byte field; unsigned fields of the model stay below 2^31)
FromBytesLittleSigned(s) ==
    IF s = <<>> THEN 0
    ELSE LET top == s[Len(s)]
         IN  FromBytesLittle(SubSeq(s, 1, Len(s) - 1))
                + (IF top >= 128 THEN top - 256 ELSE top) * Pow2(8 * (Len(s) - 1))

\* n.to_bytes(w, 'big') for 0 <= n < 256^w
ToBytesBig(n, w) == [i \in 1..w |-> (n \div Pow2(8 * (w - i))) % 256]

\* n.to_bytes(w, 'little') for 0 <= n < 256^w; for n < 0 the two's complement
\* bytes (\div rounds down and % is never negative)
ToBytesLittle(n, w) == [i \in 1..w |-> (n \div Pow2(8 * (i - 1))) % 256]

\* the concatenation of the strings of ss, each k long
Flatten(ss, k) == [i \in 1..(Len(ss) * k) |-> ss[((i - 1) \div k) + 1][((i - 1) % k) + 1]]

(***************************************************************************)
(* _lz_compress: the sliding-window match/literal coder (version 6).       *)
(***************************************************************************)
window_size == 4095
min_match == 4
max_match == 255
max_positions_per_key == 32

\* table.get(key): the deque of positions stored under key, empty when absent
TableGet(table, key) == IF key \in DOMAIN table THEN table[key] ELSE <<>>

\* dq = table[k]; dq.append(p); if len(dq) > max_positions_per_key: dq.popleft()
TableAdd(table, k, p) ==
    LET dq == Append(TableGet(table, k), p)
        kept == IF Len(dq) > max_positions_per_key THEN Tail(dq) ELSE dq
    IN  [x \in (DOMAIN table) \cup {k} |-> IF x = k THEN kept ELSE table[x]]

\* the inner while loop that extends a match: length grows until it reaches
\* max_match, the end of the data, or the first pair of bytes that differ
MatchLength(data, candidate, pos) ==
    LET limit == Min(max_match, Len(data) - pos)
        stops == {k \in 0..(limit - 1) : At(data, candidate + k) # At(data, pos + k)}
    IN  IF stops = {} THEN limit
        ELSE CHOOSE k \in stops : \A j \in stops : k <= j

\* a plausible slip: a candidate is taken however far back it lies
SearchStepAnyDistance(data, pos, candidates, i, best) ==
    LET candidate == candidates[i]
        off == pos - candidate
        length == MatchLength(data, candidate, pos)
    IN  IF length > best.best_len
        THEN [best_len |-> length, best_off |-> off]
        ELSE best

\* the body of `for candidate in reversed(candidates)` for the entry i
SearchStep(data, pos, candidates, i, best) ==
    LET candidate == candidates[i]
        off == pos - candidate
        length == MatchLength(data, candidate, pos)
    IN  IF off > window_size THEN best
        ELSE IF length > best.best_len
        THEN [best_len |-> length, best_off |-> off]
        ELSE best

\* for candidate in reversed(candidates): the entries hi down to lo, newest first,
\* left by the break once best_len >= max_match
RECURSIVE SearchCandidates(_, _, _, _, _, _)
SearchCandidates(data, pos, candidates, lo, hi, best) ==
    IF lo > hi \/ best.best_len >= max_match THEN best
    ELSE IF lo = hi THEN SearchStep(data, pos, candidates, lo, best)
    ELSE LET mid == (lo + hi + 1) \div 2
             newer == SearchCandidates(data, pos, candidates, mid, hi, best)
         IN  IF newer.best_len >= max_match THEN newer
             ELSE SearchCandidates(data, pos, candidates, lo, mid - 1, newer)

\* best_len, best_off for the position pos
FindBest(data, pos, table) ==
    IF pos + min_match <= Len(data)
    THEN LET candidates == TableGet(table, Slice(data, pos, pos + min_match))
         IN  SearchCandidates(data, pos, candidates, 1, Len(candidates),
                              [best_len |-> 0, best_off |-> 0])
    ELSE [best_len |-> 0, best_off |-> 0]

\* for p in range(p, endp): index p under its 4-byte prefix
RECURSIVE AddPositions(_, _, _, _)
AddPositions(table, data, p, endp) ==
    IF p >= endp THEN table
    ELSE IF endp = p + 1
    THEN IF p + min_match <= Len(data)
         THEN TableAdd(table, Slice(data, p, p + min_match), p)
         ELSE table
    ELSE LET mid == (p + endp) \div 2
             first == AddPositions(table, data, p, mid)
         IN  IF Evaluated(first) THEN AddPositions(first, data, mid, endp) ELSE first

\* the token written for (best_len, best_off) at pos
MatchToken(best) == <<1>> \o ToBytesBig(best.best_off, 2) \o <<best.best_len>>
LiteralToken(data, pos) == <<0, At(data, pos)>>

\* one iteration of `while pos < n`; st = [data, pos, out, table]
LzEncStep(st) ==
    LET best == FindBest(st.data, st.pos, st.table)
    IN  IF best.best_len >= min_match
        THEN [st EXCEPT !.out = st.out \o MatchToken(best),
                        !.table = AddPositions(st.table, st.data, st.pos,
                                               st.pos + best.best_len),
                        !.pos = st.pos + best.best_len]
        ELSE [st EXCEPT !.out = st.out \o LiteralToken(st.data, st.pos),
                        !.table = AddPositions(st.table, st.data, st.pos, st.pos + 1),
                        !.pos = st.pos + 1]

LzEncInit(data) == [data |-> data, pos |-> 0, out |-> <<>>, table |-> <<>>]

\* at most n iterations of `while pos < n`
RECURSIVE LzEncRun(_, _)
LzEncRun(st, n) ==
    IF n = 0 \/ st.pos >= Len(st.data) THEN st
    ELSE IF n = 1 THEN LzEncStep(st)
    ELSE LET first == LzEncRun(st, n \div 2)
         IN  IF first.pos >= Len(first.data) THEN first
             ELSE LzEncRun(first, n - (n \div 2))

\* while pos < n: every iteration moves pos forward, so len(data) iterations end it
LzEncLoop(st) == LzEncRun(st, Len(st.data)).out

_lz_compress(data) == IF data = <<>> THEN <<>> ELSE LzEncLoop(LzEncInit(data))

(***************************************************************************)
(* _lz_decompress.                                                         *)
(***************************************************************************)
\* a plausible slip: the match copied as one block, out += out[start:start+length]
CopyMatchBlock(out, start, length) == out \o Slice(out, start, start + length)

\* for i in range(i, length): out.append(out[start + i]), byte by byte, so that the
\* bytes appended first are read again when offset < length
RECURSIVE CopyMatchFrom(_, _, _, _)
CopyMatchFrom(out, start, i, length) ==
    IF i >= length THEN out
    ELSE IF length = i + 1 THEN Append(out, At(out, start + i))
    ELSE LET mid == (i + length) \div 2
             first == CopyMatchFrom(out, start, i, mid)
         IN  IF Evaluated(first) THEN CopyMatchFrom(first, start, mid, length)
             ELSE first

CopyMatch(out, start, length) == CopyMatchFrom(out, start, 0, length)

LzDecInit(comp) == [comp |-> comp, pos |-> 0, out |-> <<>>, err |-> ""]

\* a plausible slip: every flag other than 1 is taken for a literal
LzDecStepTwoWay(st) ==
    LET n == Len(st.comp)
        pos == st.pos + 1
    IN  IF At(st.comp, st.pos) # 1
        THEN IF pos >= n
             THEN [st EXCEPT !.err = "Corrupt LZ stream: literal missing byte"]
             ELSE [st EXCEPT !.out = Append(st.out, At(st.comp, pos)),
                             !.pos = pos + 1]
        ELSE IF pos + 3 > n
        THEN [st EXCEPT !.err = "Corrupt LZ stream: match header truncated"]
        ELSE LET offset == FromBytesBig(Slice(st.comp, pos, pos + 2))
                 length == At(st.comp, pos + 2)
             IN  IF offset <= 0 \/ offset > Len(st.out)
                 THEN [st EXCEPT !.err = "Corrupt LZ stream: invalid offset"]
                 ELSE [st EXCEPT
                          !.out = CopyMatch(st.out, Len(st.out) - offset, length),
                          !.pos = pos + 3]

\* one iteration of `while pos < n`; st = [comp, pos, out, err]
LzDecStep(st) ==
    LET n == Len(st.comp)
        flag == At(st.comp, st.pos)
        pos == st.pos + 1
    IN  IF flag = 0
        THEN IF pos >= n
             THEN [st EXCEPT !.err = "Corrupt LZ stream: literal missing byte"]
             ELSE [st EXCEPT !.out = Append(st.out, At(st.comp, pos)),
                             !.pos = pos + 1]
        ELSE IF flag = 1
        THEN IF pos + 3 > n
             THEN [st EXCEPT !.err = "Corrupt LZ stream: match header truncated"]
             ELSE LET offset == FromBytesBig(Slice(st.comp, pos, pos + 2))
                      length == At(st.comp, pos + 2)
                  IN  IF offset <= 0 \/ offset > Len(st.out)
                      THEN [st EXCEPT !.err = "Corrupt LZ stream: invalid offset"]
                      ELSE [st EXCEPT
                               !.out = CopyMatch(st.out, Len(st.out) - offset, length),
                               !.pos = pos + 3]
        ELSE [st EXCEPT !.err = "Corrupt LZ stream: unknown flag"]

\* at most n iterations of `while pos < n`, left when a ValueError is raised
RECURSIVE LzDecRun(_, _)
LzDecRun(st, n) ==
    IF n = 0 \/ st.err # "" \/ st.pos >= Len(st.comp) THEN st
    ELSE IF n = 1 THEN LzDecStep(st)
    ELSE LET first == LzDecRun(st, n \div 2)
         IN  IF first.err # "" \/ first.pos >= Len(first.comp) THEN first
             ELSE LzDecRun(first, n - (n \div 2))

\* while pos < n: every iteration moves pos forward, so len(comp) iterations end it
LzDecLoop(st) == LzDecRun(st, Len(st.comp))

\* the bytes returned (out) or the ValueError raised (err # "")
_lz_decompress(comp) ==
    LET st == LzDecLoop(LzDecInit(comp))
    IN  [err |-> st.err, out |-> IF st.err = "" THEN st.out ELSE <<>>]

(***************************************************************************)
(* SpecLZ: _lz_compress run on a byte string, then _lz_decompress run on   *)
(* what it returned, one loop iteration per step.                          *)
(***************************************************************************)
LzBytes == {0, 1}

RECURSIVE BytesUpTo(_)
BytesUpTo(n) ==
    IF n = 0 THEN {<<>>}
    ELSE LET shorter == BytesUpTo(n - 1)
         IN  shorter \cup {Append(s, b) : s \in {t \in shorter : Len(t) = n - 1},
                                          b \in LzBytes}

NoParser == [bmp_bytes |-> <<>>, metadata |-> <<>>, color_table |-> <<>>,
             pixel_data |-> <<>>, err |-> ""]
NoComp == <<>>
NoResult == <<>>

\* four marker bytes, gap zero bytes, the four marker bytes again: the second
\* marker lies gap + 4 bytes after the first
FarRepeat(gap) ==
    <<200, 201, 202, 203>> \o [i \in 1..gap |-> 0] \o <<200, 201, 202, 203>>

\* inputs that reach the limits of a token: a repeat exactly window_size bytes
\* back, a repeat one byte further, a run longer than max_match
LongInputs ==
    {FarRepeat(window_size - 4), FarRepeat(window_size - 3),
     [i \in 1..(max_match + 45) |-> 0]}

InitLZ ==
    /\ pc = "lz_compress"
    /\ \E d \in BytesUpTo(MaxLzLen) \cup LongInputs :
          /\ input = [data |-> d]
          /\ lz = [enc |-> LzEncInit(d), dec |-> LzDecInit(<<>>)]
    /\ parser = NoParser
    /\ compressor = NoComp
    /\ cfile = <<>>
    /\ result = NoResult

LzCompressStep ==
    /\ pc = "lz_compress"
    /\ lz.enc.pos < Len(lz.enc.data)
    /\ lz' = [lz EXCEPT !.enc = LzEncStep(lz.enc)]
    /\ UNCHANGED <<pc, input, parser, compressor, cfile, result>>

\* return bytes(out); the caller hands the bytes to _lz_decompress
LzCompressReturn ==
    /\ pc = "lz_compress"
    /\ lz.enc.pos >= Len(lz.enc.data)
    /\ lz' = [lz EXCEPT !.dec = LzDecInit(lz.enc.out)]
    /\ pc' = "lz_decompress"
    /\ UNCHANGED <<input, parser, compressor, cfile, result>>

LzDecompressStep ==
    /\ pc = "lz_decompress"
    /\ lz.dec.err = ""
    /\ lz.dec.pos < Len(lz.dec.comp)
    /\ lz' = [lz EXCEPT !.dec = LzDecStep(lz.dec)]
    /\ UNCHANGED <<pc, input, parser, compressor, cfile, result>>

\* return bytes(out), or the ValueError leaves the function
LzDecompressReturn ==
    /\ pc = "lz_decompress"
    /\ lz.dec.err # "" \/ lz.dec.pos >= Len(lz.dec.comp)
    /\ result' = [err |-> lz.dec.err,
                  out |-> IF lz.dec.err = "" THEN lz.dec.out ELSE <<>>]
    /\ pc' = "lz_done"
    /\ UNCHANGED <<input, lz, parser, compressor, cfile>>

NextLZ ==
    \/ LzCompressStep
    \/ LzCompressReturn
    \/ LzDecompressStep
    \/ LzDecompressReturn

SpecLZ == InitLZ /\ [][NextLZ]_vars

\* C2: for every byte string d, _lz_decompress(_lz_compress(d)) = d, with no
\* error raised, overlapping matches (offset < length) included.
C2_LzRoundTrip ==
    pc = "lz_done" => /\ lz.dec.err = ""
                      /\ lz.dec.out = input.data
                      /\ _lz_decompress(_lz_compress(lz.enc.data)).out = lz.enc.data

\* eight zero bytes: one literal, then a match of offset 1 and length 7
C2_Witness ==
    /\ pc = "lz_done"
    /\ input.data = <<0, 0, 0, 0, 0, 0, 0, 0>>
    /\ lz.dec.comp = <<0, 0, 1, 0, 1, 7>>
    /\ lz.dec.out = input.data

(***************************************************************************)
(* SpecLzStream: _lz_decompress run on an arbitrary byte string, one loop  *)
(* iteration per step.                                                     *)
(***************************************************************************)
MaxStreamLen == 6

StreamBytes == {0, 1, 2}

RECURSIVE StreamsUpTo(_)
StreamsUpTo(n) ==
    IF n = 0 THEN {<<>>}
    ELSE LET shorter == StreamsUpTo(n - 1)
         IN  shorter \cup {Append(s, b) : s \in {t \in shorter : Len(t) = n - 1},
                                          b \in StreamBytes}

InitLzStream ==
    /\ pc = "lz_decompress"
    /\ \E comp \in StreamsUpTo(MaxStreamLen) :
          /\ input = [data |-> <<>>, comp |-> comp]
          /\ lz = [enc |-> LzEncInit(<<>>), dec |-> LzDecInit(comp)]
    /\ parser = NoParser
    /\ compressor = NoComp
    /\ cfile = <<>>
    /\ result = NoResult

NextLzStream ==
    \/ LzDecompressStep
    \/ LzDecompressReturn

SpecLzStream == InitLzStream /\ [][NextLzStream]_vars

\* the bytes the encoder's step has just appended to out
LastToken(before, after) == Slice(after.out, Len(before.out), Len(after.out))

\* C12: every back-reference token _lz_compress emits has an offset o with
\* 1 <= o <= 4095 and o <= the number of input bytes already encoded, and a
\* length between 4 and 255 that does not run past the end of the input.
C12_LzTokenBounds ==
    [][(pc = "lz_compress" /\ pc' = "lz_compress"
          /\ At(LastToken(lz.enc, lz'.enc), 0) = 1) =>
           LET tok == LastToken(lz.enc, lz'.enc)
               o == 256 * At(tok, 1) + At(tok, 2)
               len == At(tok, 3)
           IN  /\ Len(tok) = 4
               /\ 1 <= o /\ o <= 4095 /\ o <= lz.enc.pos
               /\ 4 <= len /\ len <= 255
               /\ lz.enc.pos + len <= Len(input.data)
               /\ lz'.enc.pos = lz.enc.pos + len]_vars

\* the repeat exactly 4095 bytes back has been encoded as a back-reference
C12_Witness ==
    /\ pc = "lz_compress"
    /\ input.data = FarRepeat(window_size - 4)
    /\ lz.enc.pos = Len(input.data)
    /\ Slice(lz.enc.out, Len(lz.enc.out) - 4, Len(lz.enc.out)) = <<1, 15, 255, 4>>

\* the ValueErrors of _lz_decompress
CorruptStreamErrors ==
    {"Corrupt LZ stream: literal missing byte",
     "Corrupt LZ stream: match header truncated",
     "Corrupt LZ stream: invalid offset",
     "Corrupt LZ stream: unknown flag"}

\* the token that starts at position d.pos of the stream is one the decoder must
\* reject: an unknown flag, a literal or a match cut off by the end of the
\* stream, a match whose offset is 0 or larger than the output so far
BadTokenAhead(d) ==
    LET flag == At(d.comp, d.pos)
        left == Len(d.comp) - d.pos
        offset == 256 * At(d.comp, d.pos + 1) + At(d.comp, d.pos + 2)
    IN  \/ flag \notin {0, 1}
        \/ flag = 0 /\ left < 2
        \/ flag = 1 /\ left < 4
        \/ flag = 1 /\ left >= 4 /\ (offset = 0 \/ offset > Len(d.out))

\* C13: _lz_decompress fails with the corrupt-stream error, returning no output,
\* whenever it meets a token whose flag is neither 0 nor 1, a match whose offset
\* is 0 or larger than the bytes produced so far, or a literal or match cut off
\* by the end of the stream; a well-formed token raises nothing.
C13_LzCorruptStreamRejected ==
    [][/\ (pc = "lz_decompress" /\ pc' = "lz_decompress") =>
            /\ BadTokenAhead(lz.dec) => lz'.dec.err \in CorruptStreamErrors
            /\ ~BadTokenAhead(lz.dec) => lz'.dec.err = ""
       /\ (pc = "lz_decompress" /\ pc' = "lz_done" /\ lz.dec.err # "") =>
            /\ result'.err \in CorruptStreamErrors
            /\ result'.out = <<>>]_vars

\* a literal, then a match that reaches two bytes back when one was produced
C13_Witness ==
    /\ pc = "lz_done"
    /\ input.comp = <<0, 2, 1, 0, 2, 1>>
    /\ result.err = "Corrupt LZ stream: invalid offset"
    /\ result.out = <<>>

(***************************************************************************)
(* BMPParser: _parse_header, _parse_color_table, _parse_pixel_data.        *)
(***************************************************************************)
\* b'BM'
BM == <<66, 77>>

\* [err, metadata]: ValueError("Not a BMP file") or the five header fields
_parse_header(b) ==
    IF Slice(b, 0, 2) # BM
    THEN [err |-> "Not a BMP file", metadata |-> <<>>]
    ELSE [err |-> "",
          metadata |-> [file_size   |-> FromBytesLittle(Slice(b, 2, 6)),
                        data_offset |-> FromBytesLittle(Slice(b, 10, 14)),
                        width       |-> FromBytesLittle(Slice(b, 18, 22)),
                        height      |-> FromBytesLittleSigned(Slice(b, 22, 26)),
                        bpp         |-> FromBytesLittle(Slice(b, 28, 30))]]

\* start = 0x36
ColorTableStart == 54

\* [err, color_table]: b, g, r, _ = bmp_bytes[start + i*4 : start + i*4 + 4] raises
\* ValueError when the slice is shorter than four bytes
_parse_color_table(b, bpp, old_table) ==
    IF bpp \in {1, 4, 8}
    THEN LET num_colors == Pow2(bpp)
         IN  IF ColorTableStart + (num_colors - 1) * 4 + 4 > Len(b)
             THEN [err |-> "ValueError: not enough values to unpack",
                   color_table |-> <<>>]
             ELSE [err |-> "",
                   color_table |->
                      [k \in 1..num_colors |->
                          LET e == Slice(b, ColorTableStart + (k - 1) * 4,
                                            ColorTableStart + (k - 1) * 4 + 4)
                          IN  <<e[3], e[2], e[1]>>]]
    ELSE [err |-> "", color_table |-> old_table]

\* row_size = ((bpp * width + 31) // 32) * 4
RowSize(bpp, width) == ((bpp * width + 31) \div 32) * 4

\* a plausible slip: rows always read top-down
RowStartTopDown(offset, abs_height, row, row_size, is_bottom_up) ==
    offset + row * row_size

\* the byte position of output row `row`
RowStart(offset, abs_height, row, row_size, is_bottom_up) ==
    IF is_bottom_up
    THEN offset + (abs_height - row - 1) * row_size
    ELSE offset + row * row_size

\* whether the read of pixel `col` stays inside bmp_bytes (a three-byte slice for
\* 24 bpp, one indexed byte otherwise)
PixelInFile(b, bpp, row_start, col) ==
    CASE bpp = 24 -> row_start + col * 3 + 3 <= Len(b)
      [] bpp = 8  -> row_start + col < Len(b)
      [] bpp = 4  -> row_start + col \div 2 < Len(b)
      [] bpp = 1  -> row_start + col \div 8 < Len(b)

\* a plausible slip: 24-bpp bytes taken as R, G, B
Pixel24RGB(b, idx) == <<At(b, idx), At(b, idx + 1), At(b, idx + 2)>>

\* B, G, R = bmp_bytes[idx:idx+3]; (R, G, B)
Pixel24(b, idx) == <<At(b, idx + 2), At(b, idx + 1), At(b, idx)>>

\* index = byte >> 4 for even columns, byte & 0x0F for odd ones
Nibble(byte, col) == IF col % 2 = 0 THEN byte \div 16 ELSE byte % 16

\* index = (byte >> (7 - col % 8)) & 1
Bit(byte, col) == (byte \div Pow2(7 - (col % 8))) % 2

\* the pixel of column col in the row starting at row_start
PixelAt(b, bpp, row_start, col, color_table) ==
    CASE bpp = 24 -> Pixel24(b, row_start + col * 3)
      [] bpp = 8  -> At(color_table, At(b, row_start + col))
      [] bpp = 4  -> At(color_table, Nibble(At(b, row_start + col \div 2), col))
      [] bpp = 1  -> At(color_table, Bit(At(b, row_start + col \div 8), col))

\* [err, pixel_data]
_parse_pixel_data(b, metadata, color_table) ==
    LET bpp == metadata.bpp
        offset == metadata.data_offset
        width == metadata.width
        height == metadata.height
        row_size == RowSize(bpp, width)
        abs_height == Abs(height)
        is_bottom_up == height > 0
        start(row) == RowStart(offset, abs_height, row, row_size, is_bottom_up)
    IN  IF abs_height > 0 /\ bpp \notin {24, 8, 4, 1}
        THEN [err |-> "Unsupported bpp", pixel_data |-> <<>>]
        ELSE IF \E row \in 0..(abs_height - 1), col \in 0..(width - 1) :
                    ~PixelInFile(b, bpp, start(row), col)
        THEN [err |-> IF bpp = 24 THEN "ValueError: not enough values to unpack"
                                  ELSE "IndexError",
              pixel_data |-> <<>>]
        ELSE [err |-> "",
              pixel_data |->
                 [r \in 1..abs_height |->
                     [c \in 1..width |->
                         PixelAt(b, bpp, start(r - 1), c - 1, color_table)]]]

\* BMPParser(path).load() on the bytes b: [err, metadata, pixel_data]
BMPParser_load(b) ==
    LET h == _parse_header(b)
        t == _parse_color_table(b, h.metadata.bpp, <<>>)
        d == _parse_pixel_data(b, h.metadata, t.color_table)
    IN  IF h.err # "" THEN [err |-> h.err, metadata |-> <<>>, pixel_data |-> <<>>]
        ELSE IF t.err # "" THEN [err |-> t.err, metadata |-> h.metadata, pixel_data |-> <<>>]
        ELSE [err |-> d.err, metadata |-> h.metadata, pixel_data |-> d.pixel_data]

(***************************************************************************)
(* Source bitmaps: the bytes of a bitmap file synthesized from a pixel     *)
(* grid, as the on-disk format lays them out (14-byte file header, 40-byte *)
(* info header, BGRA color table for 1/4/8 bpp, rows padded to 4 bytes).   *)
(* Padding bytes are 170 and unused bits of a row's last byte are 1, so a  *)
(* decoder that reads padding as pixels shows.                             *)
(***************************************************************************)
SupportedDepths == {1, 4, 8, 24}
OtherDepths == {16, 32}

\* the color stored at position i of a synthesized color table
ColorOf(i) == <<i, (i * 3 + 1) % 256, 255 - i>>

SrcColorTable(bpp) ==
    IF bpp \in {1, 4, 8} THEN [k \in 1..Pow2(bpp) |-> ColorOf(k - 1)] ELSE <<>>

\* the two pixel values a synthesized image uses: color-table indices, or colors
PixelChoices(bpp) ==
    CASE bpp = 1  -> <<0, 1>>
      [] bpp = 4  -> <<6, 9>>
      [] bpp = 8  -> <<1, 200>>
      [] bpp = 24 -> << <<255, 0, 0>>, <<10, 20, 30>> >>
      [] OTHER    -> <<0, 0>>

\* the color a pixel value stands for
TrueColor(bpp, v) == IF bpp = 24 THEN v ELSE ColorOf(v)

\* four row patterns over the two pixel values (c counts from 0)
PatternBit(p, c, width) ==
    CASE p = 0 -> c % 2
      [] p = 1 -> IF c % 3 = 0 THEN 1 ELSE 0
      [] p = 2 -> 1
      [] p = 3 -> IF c = width - 1 THEN 1 ELSE 0

PatternRow(bpp, p, width) ==
    [c \in 1..width |-> PixelChoices(bpp)[PatternBit(p, c - 1, width) + 1]]

Reverse(s) == [i \in 1..Len(s) |-> s[Len(s) + 1 - i]]

\* the row's pixel bytes before padding
PackRow(bpp, row) ==
    LET w == Len(row)
    IN  CASE bpp = 24 -> Flatten([c \in 1..w |-> <<row[c][3], row[c][2], row[c][1]>>], 3)
          [] bpp = 8  -> row
          [] bpp = 4  ->
               [j \in 1..((w + 1) \div 2) |->
                   row[2 * j - 1] * 16 + (IF 2 * j <= w THEN row[2 * j] ELSE 15)]
          [] bpp = 1  ->
               LET bit(c) == IF c <= w THEN row[c] ELSE 1
                   RECURSIVE byte(_, _)
                   byte(j, k) == IF k = 8 THEN 0
                                 ELSE bit(8 * (j - 1) + k + 1) * Pow2(7 - k) + byte(j, k + 1)
               IN  [j \in 1..((w + 7) \div 8) |-> byte(j, 0)]
          [] OTHER    -> <<>>

PadTo(bytes, n) == bytes \o [i \in 1..(n - Len(bytes)) |-> 170]

BmpHeader(bpp, width, height, file_size, data_offset) ==
    BM \o ToBytesLittle(file_size, 4) \o <<0, 0, 0, 0>> \o ToBytesLittle(data_offset, 4)
       \o ToBytesLittle(40, 4) \o ToBytesLittle(width, 4)
       \o ToBytesLittle(height, 4)
       \o <<1, 0>> \o ToBytesLittle(bpp, 2) \o [i \in 1..24 |-> 0]

\* stored: the rows of pixel values in file order
SynthBmp(bpp, width, height, stored) ==
    LET table == Flatten([k \in 1..Len(SrcColorTable(bpp)) |->
                     LET col == SrcColorTable(bpp)[k]
                     IN  <<col[3], col[2], col[1], 0>>], 4)
        data_offset == 54 + Len(table)
        row_size == ((bpp * width + 31) \div 32) * 4
        rows == Flatten([r \in 1..Len(stored) |-> PadTo(PackRow(bpp, stored[r]), row_size)],
                       row_size)
    IN  BmpHeader(bpp, width, height, data_offset + Len(rows), data_offset)
           \o table \o rows

\* a 24-bpp bottom-up bitmap file of a grid of colors given top to bottom
BmpOfGrid(grid) ==
    LET height == Len(grid)
        width == IF height > 0 THEN Len(grid[1]) ELSE 0
    IN  SynthBmp(24, width, height, Reverse(grid))

(***************************************************************************)
(* SpecBMP: BMPParser.load() on a synthesized bitmap file.                 *)
(***************************************************************************)
NoLz == <<>>

InitBMP ==
    /\ pc = "parse_header"
    /\ \E bpp \in SupportedDepths \cup OtherDepths,
          width \in 0..MaxBmpWidth,
          height \in (-MaxBmpHeight)..MaxBmpHeight :
         \E pats \in [1..Abs(height) -> IF bpp \in SupportedDepths THEN 0..3 ELSE {0}] :
            LET values == [r \in 1..Abs(height) |-> PatternRow(bpp, pats[r], width)]
                stored == IF height > 0 THEN Reverse(values) ELSE values
                color(rows) == [r \in 1..Len(rows) |->
                                   [c \in 1..width |-> TrueColor(bpp, rows[r][c])]]
            IN  /\ input = [bpp |-> bpp, width |-> width, height |-> height,
                            grid |-> color(values), stored |-> color(stored)]
                /\ parser = [NoParser EXCEPT
                               !.bmp_bytes = SynthBmp(bpp, width, height, stored)]
    /\ lz = NoLz
    /\ compressor = NoComp
    /\ cfile = <<>>
    /\ result = NoResult

ParseHeader ==
    /\ pc = "parse_header"
    /\ LET h == _parse_header(parser.bmp_bytes)
       IN  /\ parser' = [parser EXCEPT !.metadata = h.metadata, !.err = h.err]
           /\ pc' = IF h.err = "" THEN "parse_color_table" ELSE "load_failed"
    /\ UNCHANGED <<input, lz, compressor, cfile, result>>

ParseColorTable ==
    /\ pc = "parse_color_table"
    /\ LET t == _parse_color_table(parser.bmp_bytes, parser.metadata.bpp,
                                   parser.color_table)
       IN  /\ parser' = [parser EXCEPT !.color_table = t.color_table, !.err = t.err]
           /\ pc' = IF t.err = "" THEN "parse_pixel_data" ELSE "load_failed"
    /\ UNCHANGED <<input, lz, compressor, cfile, result>>

ParsePixelData ==
    /\ pc = "parse_pixel_data"
    /\ LET d == _parse_pixel_data(parser.bmp_bytes, parser.metadata, parser.color_table)
       IN  /\ parser' = [parser EXCEPT !.pixel_data = d.pixel_data, !.err = d.err]
           /\ pc' = IF d.err = "" THEN "loaded" ELSE "load_failed"
    /\ UNCHANGED <<input, lz, compressor, cfile, result>>

NextBMP ==
    \/ ParseHeader
    \/ ParseColorTable
    \/ ParsePixelData

SpecBMP == InitBMP /\ [][NextBMP]_vars

LoadEnded == pc \in {"loaded", "load_failed"}

\* C6: for every bit depth in {1, 4, 8, 24}, every width and every height, decoding
\* the bitmap bytes synthesized from a pixel grid yields exactly that grid, and the
\* padding never shows as a pixel.
C6_DecodeSynthesized ==
    (LoadEnded /\ input.bpp \in SupportedDepths) =>
        /\ pc = "loaded"
        /\ parser.err = ""
        /\ parser.pixel_data = input.grid

\* a 24-bpp image three pixels wide: nine row bytes padded to twelve
C6_Witness ==
    /\ pc = "loaded"
    /\ input.bpp = 24 /\ input.width = 3 /\ input.height = 2
    /\ RowSize(24, 3) # 3 * 3
    /\ input.grid[1] # input.grid[2]
    /\ parser.pixel_data = input.grid

\* C7: the decoder produces |height| rows of width pixels; for height > 0 output row
\* r is stored row |height| - 1 - r, for height <= 0 output row r is stored row r.
C7_RowOrder ==
    (pc = "loaded" /\ input.bpp \in SupportedDepths) =>
        /\ Len(parser.pixel_data) = Abs(input.height)
        /\ \A r \in 1..Abs(input.height) :
              /\ Len(parser.pixel_data[r]) = input.width
              /\ input.height > 0 =>
                    parser.pixel_data[r] = input.stored[Abs(input.height) + 1 - r]
              /\ input.height <= 0 => parser.pixel_data[r] = input.stored[r]

\* a bottom-up image of two different rows: the last stored row comes out on top
C7_Witness ==
    /\ pc = "loaded"
    /\ input.bpp = 4 /\ input.width = 3 /\ input.height = 2
    /\ input.stored[1] # input.stored[2]
    /\ parser.pixel_data[1] = input.stored[2]
    /\ parser.pixel_data[2] = input.stored[1]

\* C8: for every bit depth other than 1, 4, 8 and 24 and every width and height,
\* height 0 included, decoding fails with the unsupported-format error.
C8_UnsupportedDepthFails ==
    (LoadEnded /\ input.bpp \notin SupportedDepths) =>
        /\ pc = "load_failed"
        /\ parser.err = "Unsupported bpp"

\* what the code does hold to: the error is raised when the image has a row
C8_UnsupportedDepthFailsWithRows ==
    (LoadEnded /\ input.bpp \notin SupportedDepths /\ input.height # 0) =>
        /\ pc = "load_failed"
        /\ parser.err = "Unsupported bpp"

(***************************************************************************)
(* BMPCompressor.compress: palette, index stream, the three index          *)
(* payloads, the strategy selector and the container writer.               *)
(***************************************************************************)
Range(s) == {s[i] : i \in 1..Len(s)}

\* symbols: the pixels of the grid in row-major order
Symbols(pixel_data) ==
    IF Len(pixel_data) = 0 THEN <<>>
    ELSE Flatten(pixel_data, Len(pixel_data[1]))

\* a plausible slip: every pixel is appended, seen before or not
BuildPaletteEveryPixel(symbols, lo, hi, palette) == palette \o Slice(symbols, lo, hi)

\* for pix in symbols[lo..hi): if pix not in index_map: ... palette.append(pix)
RECURSIVE BuildPalette(_, _, _, _)
BuildPalette(symbols, lo, hi, palette) ==
    IF lo >= hi THEN palette
    ELSE IF hi = lo + 1
    THEN IF At(symbols, lo) \in Range(palette) THEN palette
         ELSE Append(palette, At(symbols, lo))
    ELSE LET mid == (lo + hi) \div 2
             first == BuildPalette(symbols, lo, mid, palette)
         IN  IF Evaluated(first) THEN BuildPalette(symbols, mid, hi, first) ELSE first

\* index_map[pix]
IndexOf(palette, pix) == (CHOOSE k \in 1..Len(palette) : palette[k] = pix) - 1

BytesPerIndex(palette_count) ==
    IF palette_count <= 1 THEN 1
    ELSE Max(1, (bit_length(palette_count - 1) + 7) \div 8)

\* a plausible slip: the floor of one bit left out
BitsPerIndexNoFloor(palette_count) == bit_length(palette_count - 1)

BitsPerIndex(palette_count) ==
    IF palette_count <= 1 THEN 1 ELSE bit_length(palette_count - 1)

\* indices_bytes: each index as bytes_per_index big-endian bytes
IndicesBytes(indices, bytes_per_index) ==
    Flatten([i \in 1..Len(indices) |-> ToBytesBig(indices[i], bytes_per_index)],
            bytes_per_index)

\* while bit_count >= 8: flush the top byte of the buffer
RECURSIVE FlushPacked(_)
FlushPacked(st) ==
    IF st.bit_count >= 8
    THEN LET shift == st.bit_count - 8
             byte == (st.bit_buf \div Pow2(shift)) % 256
             bit_count == st.bit_count - 8
         IN  FlushPacked([out |-> Append(st.out, byte),
                          bit_count |-> bit_count,
                          bit_buf |-> IF bit_count > 0 THEN st.bit_buf % Pow2(bit_count)
                                      ELSE 0])
    ELSE st

\* the body of `for idx in indices`: append the index's bits, most significant first
PackStep(st, idx, bits_per_index) ==
    FlushPacked([st EXCEPT
        !.bit_buf = st.bit_buf * Pow2(bits_per_index) + (idx % Pow2(bits_per_index)),
        !.bit_count = st.bit_count + bits_per_index])

\* for idx in indices[lo..hi)
RECURSIVE PackLoop(_, _, _, _, _)
PackLoop(indices, lo, hi, bits_per_index, st) ==
    IF lo >= hi THEN st
    ELSE IF hi = lo + 1 THEN PackStep(st, At(indices, lo), bits_per_index)
    ELSE LET mid == (lo + hi) \div 2
             first == PackLoop(indices, lo, mid, bits_per_index, st)
         IN  IF Evaluated(first) THEN PackLoop(indices, mid, hi, bits_per_index, first)
             ELSE first

\* packed_bits_payload: the last partial byte padded with zeros on the right
PackBits(indices, bits_per_index) ==
    LET st == PackLoop(indices, 0, Len(indices), bits_per_index,
                       [out |-> <<>>, bit_buf |-> 0, bit_count |-> 0])
    IN  IF st.bit_count > 0
        THEN Append(st.out, (st.bit_buf * Pow2(8 - st.bit_count)) % 256)
        ELSE st.out

\* min(candidates, key=lambda x: x[1]): the first candidate of the least size
MinCandidate(candidates) ==
    LET k == CHOOSE k \in 1..Len(candidates) :
                /\ \A j \in 1..Len(candidates) : candidates[k][2] <= candidates[j][2]
                /\ \A j \in 1..(k - 1) : candidates[j][2] > candidates[k][2]
    IN  candidates[k]

\* a plausible slip: the fallback to RawEmbed left out
ChooseVersionNoFallback(candidates, original_size) == MinCandidate(candidates)[1]

\* a plausible slip: the first candidate that beats the original, not the smallest
ChooseVersionFirstFit(candidates, original_size) ==
    IF MinCandidate(candidates)[2] >= original_size THEN 4
    ELSE LET k == CHOOSE k \in 1..Len(candidates) :
                     /\ candidates[k][2] < original_size
                     /\ \A j \in 1..(k - 1) : candidates[j][2] >= original_size
         IN  candidates[k][1]

\* chosen_version: the smallest candidate, or 4 when it does not beat the original
ChooseVersion(candidates, original_size) ==
    IF MinCandidate(candidates)[2] >= original_size THEN 4
    ELSE MinCandidate(candidates)[1]

Magic == <<67, 77, 80, 84, 51, 54, 53>>

PaletteBytes(palette) == Flatten(palette, 3)

\* the fixed header and the palette section as compress writes them
WriteHeader(version, original_size, width, height, palette) ==
    Magic \o <<version>> \o ToBytesBig(original_size, 4) \o ToBytesBig(width, 4)
          \o ToBytesBig(height, 4)
          \o (IF version = 4 THEN ToBytesBig(0, 4)
              ELSE ToBytesBig(Len(palette), 4) \o PaletteBytes(palette))

\* a plausible slip: the version 6 branch writes the uncompressed index bytes
WritePayloadRaw6(c, version) ==
    CASE version = 3 ->
            <<c.bytes_per_index>> \o ToBytesBig(Len(c.raw_indices_payload), 4)
                \o c.raw_indices_payload
      [] version = 5 ->
            <<c.bits_per_index>> \o ToBytesBig(Len(c.packed_bits_payload), 4)
                \o c.packed_bits_payload
      [] version = 6 ->
            <<c.bytes_per_index>> \o ToBytesBig(Len(c.raw_indices_payload), 4)
                \o c.raw_indices_payload
      [] OTHER -> ToBytesBig(Len(c.original_bytes), 4) \o c.original_bytes

\* the version-specific section; c holds the locals of compress
WritePayload(c, version) ==
    CASE version = 3 ->
            <<c.bytes_per_index>> \o ToBytesBig(Len(c.raw_indices_payload), 4)
                \o c.raw_indices_payload
      [] version = 5 ->
            <<c.bits_per_index>> \o ToBytesBig(Len(c.packed_bits_payload), 4)
                \o c.packed_bits_payload
      [] version = 6 ->
            <<c.bytes_per_index>> \o ToBytesBig(Len(c.compressed_v6), 4)
                \o c.compressed_v6
      [] OTHER -> ToBytesBig(Len(c.original_bytes), 4) \o c.original_bytes

\* the file compress writes when chosen_version = version
WriteContainer(c, version) ==
    WriteHeader(version, c.original_size, c.width, c.height, c.palette)
        \o WritePayload(c, version)

\* the locals of compress up to the choice of the version
CompressLocals(pixel_data, original_bytes) ==
    LET symbols == Symbols(pixel_data)
        palette == BuildPalette(symbols, 0, Len(symbols), <<>>)
        indices == [i \in 1..Len(symbols) |-> IndexOf(palette, symbols[i])]
        height == Len(pixel_data)
        width == IF height > 0 THEN Len(pixel_data[1]) ELSE 0
        palette_count == Len(palette)
        bytes_per_index == BytesPerIndex(palette_count)
        raw_indices_payload == IndicesBytes(indices, bytes_per_index)
        bits_per_index == BitsPerIndex(palette_count)
        packed_bits_payload == PackBits(indices, bits_per_index)
        base_header == 7 + 1 + 4 + 4 + 4 + 4 + (Len(palette) * 3)
        size_v3 == base_header + 1 + 4 + Len(raw_indices_payload)
        size_v5 == base_header + 1 + 4 + Len(packed_bits_payload)
        size_v4 == 7 + 1 + 4 + 4 + 4 + 4 + 4 + Len(original_bytes)
        compressed_v6 == _lz_compress(raw_indices_payload)
        size_v6 == base_header + 1 + 4 + Len(compressed_v6)
        candidates == << <<3, size_v3>>, <<5, size_v5>>, <<6, size_v6>>, <<4, size_v4>> >>
    IN  [palette |-> palette, indices |-> indices,
         original_size |-> Len(original_bytes), original_bytes |-> original_bytes,
         width |-> width, height |-> height,
         bytes_per_index |-> bytes_per_index, bits_per_index |-> bits_per_index,
         raw_indices_payload |-> raw_indices_payload,
         packed_bits_payload |-> packed_bits_payload,
         compressed_v6 |-> compressed_v6,
         candidates |-> candidates,
         chosen_version |-> ChooseVersion(candidates, Len(original_bytes))]

\* compress(pixel_data, output_file, input_path): the locals and the file written
compress(pixel_data, original_bytes) ==
    LET c == CompressLocals(pixel_data, original_bytes)
    IN  [locals |-> c, file |-> WriteContainer(c, c.chosen_version)]

(***************************************************************************)
(* BMPCompressor._lzw_pack_indices_to_bits: the legacy dictionary encoder  *)
(* (version 2 payload).  Codes go into the stream least significant bit    *)
(* first.                                                                  *)
(***************************************************************************)
\* self.max_dict_size = 1 << 18
max_dict_size == 262144

\* a | b on non-negative integers
RECURSIVE BitOr(_, _)
BitOr(a, b) ==
    IF a = 0 THEN b
    ELSE IF b = 0 THEN a
    ELSE 2 * BitOr(a \div 2, b \div 2) + (IF a % 2 = 1 \/ b % 2 = 1 THEN 1 ELSE 0)

\* while bit_count >= 8: out.append(bit_buf & 0xFF); bit_buf >>= 8
RECURSIVE FlushLow(_)
FlushLow(w) ==
    IF w.bit_count >= 8
    THEN FlushLow([out |-> Append(w.out, w.bit_buf % 256),
                   bit_buf |-> w.bit_buf \div 256,
                   bit_count |-> w.bit_count - 8])
    ELSE w

\* write_code(code, width) on the writer w = [out, bit_buf, bit_count]
write_code(w, code, width) ==
    FlushLow([w EXCEPT !.bit_buf = BitOr(w.bit_buf, code * Pow2(w.bit_count)),
                       !.bit_count = w.bit_count + width])

SeqMax(s) == CHOOSE m \in Range(s) : \A x \in Range(s) : x <= m

\* dictionary[sc] = code
DictPut(dictionary, sc, code) ==
    [x \in (DOMAIN dictionary) \cup {sc} |-> IF x = sc THEN code ELSE dictionary[x]]

\* the locals before the loop; codes lists the (code, width) pairs written so far
LzwEncInit(data) ==
    LET init_dict_size == SeqMax(data) + 1
    IN  [data |-> data, i |-> 1,
         dictionary |-> [x \in {<<k>> : k \in 0..(init_dict_size - 1)} |-> x[1]],
         dict_size |-> init_dict_size,
         code_width |-> Max(1, bit_length(init_dict_size - 1)),
         w |-> [out |-> <<>>, bit_buf |-> 0, bit_count |-> 0],
         s |-> <<data[1]>>,
         codes |-> <<>>]

\* one iteration of `for c in data[1:]`; e.i is the 0-based position of c
LzwEncStep(e) ==
    LET c == At(e.data, e.i)
        sc == Append(e.s, c)
    IN  IF sc \in DOMAIN e.dictionary
        THEN [e EXCEPT !.s = sc, !.i = e.i + 1]
        ELSE LET written == [e EXCEPT
                     !.w = write_code(e.w, e.dictionary[e.s], e.code_width),
                     !.codes = Append(e.codes, <<e.dictionary[e.s], e.code_width>>),
                     !.s = <<c>>,
                     !.i = e.i + 1]
             IN  IF e.dict_size < max_dict_size
                 THEN [written EXCEPT
                         !.dictionary = DictPut(e.dictionary, sc, e.dict_size),
                         !.dict_size = e.dict_size + 1,
                         !.code_width = IF e.dict_size + 1 = Pow2(e.code_width)
                                        THEN e.code_width + 1 ELSE e.code_width]
                 ELSE written

\* at most n iterations of `for c in data[1:]`
RECURSIVE LzwEncRun(_, _)
LzwEncRun(e, n) ==
    IF n = 0 \/ e.i >= Len(e.data) THEN e
    ELSE IF n = 1 THEN LzwEncStep(e)
    ELSE LET first == LzwEncRun(e, n \div 2)
         IN  IF first.i >= Len(first.data) THEN first
             ELSE LzwEncRun(first, n - (n \div 2))

LzwEncLoop(e) == LzwEncRun(e, Len(e.data))

\* the last code and the last partial byte
LzwEncFinish(e) ==
    LET w == write_code(e.w, e.dictionary[e.s], e.code_width)
    IN  [e EXCEPT !.w = IF w.bit_count > 0
                        THEN [w EXCEPT !.out = Append(w.out, w.bit_buf % 256)]
                        ELSE w,
                  !.codes = Append(e.codes, <<e.dictionary[e.s], e.code_width>>)]

_lzw_pack_indices_to_bits(data) ==
    IF data = <<>> THEN <<>>
    ELSE LzwEncFinish(LzwEncLoop(LzwEncInit(data))).w.out

(***************************************************************************)
(* BMPDecompressor.decompress.  A result is [err, rows, width, height,     *)
(* original_size]; err = "" is a normal return.                            *)
(***************************************************************************)
Black == <<0, 0, 0>>

Raise(msg) == [err |-> msg, rows |-> <<>>, width |-> 0, height |-> 0, original_size |-> 0]
Return(rows, width, height, original_size) ==
    [err |-> "", rows |-> rows, width |-> width, height |-> height,
     original_size |-> original_size]

\* palette[i] if 0 <= i < len(palette) else (0,0,0)
LookUp(palette, result_indices) ==
    [k \in 1..Len(result_indices) |->
        IF result_indices[k] < Len(palette) THEN At(palette, result_indices[k])
        ELSE Black]

\* a plausible slip: the flat pixel list reshaped column by column
ReshapeColumns(pixels, width, height) ==
    [r \in 1..height |->
        [c \in 1..width |->
            LET idx == (c - 1) * height + (r - 1)
            IN  IF idx < Len(pixels) THEN At(pixels, idx) ELSE Black]]

\* height rows of width pixels; a position past the decoded pixels is black
Reshape(pixels, width, height) ==
    [r \in 1..height |->
        [c \in 1..width |->
            LET idx == (r - 1) * width + (c - 1)
            IN  IF idx < Len(pixels) THEN At(pixels, idx) ELSE Black]]

\* int.from_bytes(packed[i:i+bytes_per_index], 'big') for i in range(0, len, w)
SplitIndices(packed, bytes_per_index) ==
    [k \in 1..(Len(packed) \div bytes_per_index) |->
        FromBytesBig(Slice(packed, (k - 1) * bytes_per_index, k * bytes_per_index))]

\* one iteration of the inner while loop
UnpackCode(u, bits_per_index) ==
    LET shift == u.bit_count - bits_per_index
        code == (u.bit_buf \div Pow2(shift)) % Pow2(bits_per_index)
        bit_count == u.bit_count - bits_per_index
    IN  [result_indices |-> Append(u.result_indices, code),
         bit_count |-> bit_count,
         bit_buf |-> IF bit_count > 0 THEN u.bit_buf % Pow2(bit_count) ELSE 0]

\* at most n iterations of
\* while bit_count >= bits_per_index and len(result_indices) < expected_count
RECURSIVE UnpackCodes(_, _, _, _)
UnpackCodes(u, bits_per_index, expected_count, n) ==
    IF \/ n = 0
       \/ u.bit_count < bits_per_index
       \/ Len(u.result_indices) >= expected_count
    THEN u
    ELSE IF n = 1 THEN UnpackCode(u, bits_per_index)
    ELSE LET first == UnpackCodes(u, bits_per_index, expected_count, n \div 2)
         IN  IF Len(first.result_indices) >= expected_count THEN first
             ELSE UnpackCodes(first, bits_per_index, expected_count, n - (n \div 2))

\* the body of `for b in packed`; the inner loop runs at most 8 times for a
\* positive width and at most expected_count times for the width 0
UnpackByte(u, b, bits_per_index, expected_count) ==
    UnpackCodes([u EXCEPT !.bit_buf = u.bit_buf * 256 + b,
                          !.bit_count = u.bit_count + 8],
                bits_per_index, expected_count, 8 + expected_count)

\* for b in packed[lo..hi).  Once expected_count indices are out no byte changes
\* result_indices any more, and the loop's remaining iterations (which only grow
\* bit_buf) are left out.
RECURSIVE UnpackLoop(_, _, _, _, _, _)
UnpackLoop(packed, lo, hi, bits_per_index, expected_count, u) ==
    IF lo >= hi \/ Len(u.result_indices) >= expected_count THEN u
    ELSE IF hi = lo + 1
    THEN UnpackByte(u, At(packed, lo), bits_per_index, expected_count)
    ELSE LET mid == (lo + hi) \div 2
             first == UnpackLoop(packed, lo, mid, bits_per_index, expected_count, u)
         IN  IF Len(first.result_indices) >= expected_count THEN first
             ELSE UnpackLoop(packed, mid, hi, bits_per_index, expected_count, first)

UnpackBits(packed, bits_per_index, expected_count) ==
    UnpackLoop(packed, 0, Len(packed), bits_per_index, expected_count,
               [result_indices |-> <<>>, bit_buf |-> 0, bit_count |-> 0]).result_indices

\* read_bits(n) on the reader rd = [bit_buf, bit_count, byte_pos]:
\* [val, rd], val = -1 standing for None
RECURSIVE read_bits(_, _, _)
read_bits(packed, rd, n) ==
    IF rd.bit_count < n
    THEN IF rd.byte_pos < Len(packed)
         THEN read_bits(packed,
                        [bit_buf |-> BitOr(rd.bit_buf,
                                           At(packed, rd.byte_pos) * Pow2(rd.bit_count)),
                         byte_pos |-> rd.byte_pos + 1,
                         bit_count |-> rd.bit_count + 8],
                        n)
         ELSE [val |-> -1, rd |-> rd]
    ELSE [val |-> rd.bit_buf % Pow2(n),
          rd |-> [rd EXCEPT !.bit_buf = rd.bit_buf \div Pow2(n),
                            !.bit_count = rd.bit_count - n]]

\* the locals after the first code; dictionary[code + 1] is the entry of code, and
\* widths lists the code width of every code read so far
LzwDecInit(packed, palette_len) ==
    LET dict_size == IF palette_len > 0 THEN palette_len ELSE 0
        \* max(1, (dict_size - 1).bit_length()); (-1).bit_length() is 1
        code_width == IF dict_size = 0 THEN 1 ELSE Max(1, bit_length(dict_size - 1))
        first == read_bits(packed, [bit_buf |-> 0, bit_count |-> 0, byte_pos |-> 0],
                           code_width)
    IN  [packed |-> packed,
         dictionary |-> [k \in 1..dict_size |-> <<k - 1>>],
         dict_size |-> dict_size,
         code_width |-> code_width,
         rd |-> first.rd,
         first |-> first.val,
         result_indices |-> IF first.val >= 0 /\ first.val < dict_size
                            THEN <<first.val>> ELSE <<>>,
         prev_code |-> first.val,
         widths |-> IF first.val >= 0 THEN <<code_width>> ELSE <<>>,
         done |-> first.val < 0 \/ first.val >= dict_size,
         err |-> IF first.val >= dict_size
                 THEN "Corrupt compressed data: first code invalid" ELSE ""]

\* one iteration of `while True`
LzwDecStep(d) ==
    LET code_width == IF d.dict_size = Pow2(d.code_width) THEN d.code_width + 1
                      ELSE d.code_width
        got == read_bits(d.packed, d.rd, code_width)
        code == got.val
        prev == d.dictionary[d.prev_code + 1]
        entry == IF code < Len(d.dictionary) THEN d.dictionary[code + 1]
                 ELSE Append(prev, prev[1])
        seen == [d EXCEPT !.code_width = code_width, !.rd = got.rd]
    IN  IF code < 0 THEN [seen EXCEPT !.done = TRUE]
        ELSE IF code >= Len(d.dictionary) /\ code # d.dict_size
        THEN [seen EXCEPT !.done = TRUE, !.err = "Bad compressed code",
                          !.widths = Append(d.widths, code_width)]
        ELSE [seen EXCEPT
                !.result_indices = d.result_indices \o entry,
                !.dictionary = IF d.dict_size < max_dict_size
                               THEN Append(d.dictionary, Append(prev, entry[1]))
                               ELSE d.dictionary,
                !.dict_size = IF d.dict_size < max_dict_size THEN d.dict_size + 1
                              ELSE d.dict_size,
                !.prev_code = code,
                !.widths = Append(d.widths, code_width)]

\* at most n iterations of `while True`
RECURSIVE LzwDecRun(_, _)
LzwDecRun(d, n) ==
    IF n = 0 \/ d.done THEN d
    ELSE IF n = 1 THEN LzwDecStep(d)
    ELSE LET first == LzwDecRun(d, n \div 2)
         IN  IF first.done THEN first ELSE LzwDecRun(first, n - (n \div 2))

\* while True: every iteration reads a code of at least one bit or leaves the
\* loop, so 8 * len(packed) + 1 iterations end it
LzwDecLoop(d) == LzwDecRun(d, 8 * Len(d.packed) + 1)

\* the fixed header fields, read through slices that never fail
ReadHeader(data) ==
    [version       |-> At(data, 7),
     original_size |-> FromBytesBig(Slice(data, 8, 12)),
     width         |-> FromBytesBig(Slice(data, 12, 16)),
     height        |-> FromBytesBig(Slice(data, 16, 20)),
     palette_len   |-> FromBytesBig(Slice(data, 20, 24))]

\* r = data[pos]; g = data[pos+1]; b = data[pos+2] for each declared entry
ReadPalette(data, palette_len) ==
    [k \in 1..palette_len |->
        <<At(data, 24 + 3 * (k - 1)), At(data, 24 + 3 * (k - 1) + 1),
          At(data, 24 + 3 * (k - 1) + 2)>>]

\* versions 3 and 6, after the payload is cut out: `raw` is the index bytes
DecodeByteAligned(raw, bytes_per_index, palette, h) ==
    IF bytes_per_index = 0 THEN Raise("ZeroDivisionError")
    ELSE IF Len(raw) % bytes_per_index # 0
    THEN Raise("Corrupt payload: indices length not multiple of bytes_per_index")
    ELSE Return(Reshape(LookUp(palette, SplitIndices(raw, bytes_per_index)),
                        h.width, h.height),
                h.width, h.height, h.original_size)

\* a plausible slip: a payload that runs out of indices is filled up with black
DecodeBitPackedLenient(packed, bits_per_index, palette, h) ==
    Return(Reshape(LookUp(palette, UnpackBits(packed, bits_per_index,
                                              h.width * h.height)),
                   h.width, h.height),
           h.width, h.height, h.original_size)

\* version 5, after the payload is cut out
DecodeBitPacked(packed, bits_per_index, palette, h) ==
    LET expected_count == h.width * h.height
        result_indices == UnpackBits(packed, bits_per_index, expected_count)
    IN  IF Len(result_indices) < expected_count
        THEN Raise("Corrupt payload: not enough indices in bit-packed payload")
        ELSE Return(Reshape(LookUp(palette, result_indices), h.width, h.height),
                    h.width, h.height, h.original_size)

\* version 4: the embedded bytes go through BMPParser
DecodeRawEmbed(raw_bmp, h) ==
    LET p == BMPParser_load(raw_bmp)
    IN  IF p.err # "" THEN Raise(p.err)
        ELSE Return(p.pixel_data, p.metadata.width, Abs(p.metadata.height),
                    h.original_size)

\* version 2: the legacy dictionary decoder
DecodeLegacy(packed, palette, palette_len, h) ==
    LET d0 == LzwDecInit(packed, palette_len)
        d == LzwDecLoop(d0)
    IN  IF d0.first < 0
        THEN Return([r \in 1..h.height |-> [c \in 1..h.width |-> Black]],
                    h.width, h.height, h.original_size)
        ELSE IF d.err # "" THEN Raise(d.err)
        ELSE Return(Reshape([k \in 1..Len(d.result_indices) |->
                                At(palette, d.result_indices[k])],
                            h.width, h.height),
                    h.width, h.height, h.original_size)

\* what each version's branch does with its payload once the lengths are checked
DecodePayload(packed, width_byte, palette, h) ==
    CASE h.version = 3 -> DecodeByteAligned(packed, width_byte, palette, h)
      [] h.version = 5 -> DecodeBitPacked(packed, width_byte, palette, h)
      [] h.version = 6 ->
            LET raw == _lz_decompress(packed)
            IN  IF raw.err # "" THEN Raise(raw.err)
                ELSE DecodeByteAligned(raw.out, width_byte, palette, h)
      [] h.version = 4 -> DecodeRawEmbed(packed, h)
      [] h.version = 2 -> DecodeLegacy(packed, palette, h.palette_len, h)

\* a plausible slip: the declared payload length is not compared with what is
\* left of the file, and the slice silently comes out short
DecodeSectionUnchecked(data, pos, palette, h) ==
    LET has_width == h.version \in {3, 5, 6}
        lenpos == IF has_width THEN pos + 1 ELSE pos
        payload_len == FromBytesBig(Slice(data, lenpos, lenpos + 4))
        start == lenpos + 4
    IN  IF has_width /\ pos >= Len(data)
        THEN Raise(IF h.version = 5
                   THEN "Corrupt file: missing bits_per_index/payload length"
                   ELSE "Corrupt file: missing bytes_per_index/payload length")
        ELSE IF lenpos + 4 > Len(data)
        THEN Raise("Corrupt file: missing payload length")
        ELSE DecodePayload(Slice(data, start, start + payload_len), At(data, pos),
                           palette, h)

\* the version-specific section starting at pos: the width byte (versions 3, 5
\* and 6), the payload length, the payload
DecodeSection(data, pos, palette, h) ==
    LET has_width == h.version \in {3, 5, 6}
        lenpos == IF has_width THEN pos + 1 ELSE pos
        payload_len == FromBytesBig(Slice(data, lenpos, lenpos + 4))
        start == lenpos + 4
    IN  IF has_width /\ pos >= Len(data)
        THEN Raise(IF h.version = 5
                   THEN "Corrupt file: missing bits_per_index/payload length"
                   ELSE "Corrupt file: missing bytes_per_index/payload length")
        ELSE IF lenpos + 4 > Len(data)
        THEN Raise("Corrupt file: missing payload length")
        ELSE IF start + payload_len > Len(data)
        THEN Raise("Corrupt file: truncated payload")
        ELSE DecodePayload(Slice(data, start, start + payload_len), At(data, pos),
                           palette, h)

\* decompress(input_file) on the file's bytes
decompress(data) ==
    IF Slice(data, 0, 7) # Magic THEN Raise("Not a CMPT365 file")
    ELSE IF 7 >= Len(data) THEN Raise("IndexError")
    ELSE LET h == ReadHeader(data)
         IN  IF h.version \notin {2, 3, 4, 5, 6}
             THEN Raise("Unsupported CMPT365 version")
             ELSE IF h.palette_len > 0 /\ 24 + 3 * h.palette_len > Len(data)
             THEN Raise("IndexError")
             ELSE DecodeSection(data, 24 + 3 * h.palette_len,
                                ReadPalette(data, h.palette_len), h)

\* the ValueErrors whose message starts "Corrupt file:" or "Corrupt payload:"
CorruptPayloadErrors ==
    {"Corrupt file: missing bits_per_index/payload length",
     "Corrupt file: missing bytes_per_index/payload length",
     "Corrupt file: missing payload length",
     "Corrupt file: truncated payload",
     "Corrupt payload: indices length not multiple of bytes_per_index",
     "Corrupt payload: not enough indices in bit-packed payload"}

(***************************************************************************)
(* A container of a forced version.  Versions 3 to 6 are the writer of     *)
(* compress with chosen_version set; version 2 has no writer left in the   *)
(* code, and its envelope is the layout the reader expects: header,        *)
(* palette, payload length, the bitstream of _lzw_pack_indices_to_bits.    *)
(***************************************************************************)
WriteLegacy(c) ==
    LET payload == _lzw_pack_indices_to_bits(c.indices)
    IN  WriteHeader(2, c.original_size, c.width, c.height, c.palette)
           \o ToBytesBig(Len(payload), 4) \o payload

ForcedContainer(c, version) ==
    IF version = 2 THEN WriteLegacy(c) ELSE WriteContainer(c, version)

(***************************************************************************)
(* Spec: the pipeline of main.py.  A bitmap file is opened and parsed, the *)
(* grid is compressed (the selector's choice, or a forced version), and    *)
(* the container is decompressed again.                                    *)
(***************************************************************************)
Colors == {<<255, 0, 0>>, <<0, 255, 0>>, <<0, 0, 255>>}

\* every grid of at most MaxPixels pixels, and the grids without pixels
SmallGrids ==
    UNION {UNION {[1..h -> [1..w -> Colors]] : h \in 1..(MaxPixels \div w)} :
              w \in 1..MaxPixels}
       \cup {<<>>, << <<>> >>, << <<>>, <<>> >>}

\* the 2x2 image of four colors
ScenarioGrid ==
    << << <<255, 0, 0>>, <<0, 255, 0>> >>, << <<0, 0, 255>>, <<255, 255, 255>> >> >>

\* w x h pixels, no two of the same color: no strategy beats a 24-bpp original
UniqueGrid(w, h) == [r \in 1..h |-> [c \in 1..w |-> <<r, c, 7>>]]

\* one row of three colors, the third repeated: the match/literal coder wins
RunGrid(n) == << [c \in 1..n |-> <<Min(c, 3), 0, 9>>] >>

BigGrids == {ScenarioGrid, UniqueGrid(4, 9), UniqueGrid(4, 10), RunGrid(43), RunGrid(47)}

GridHeight(grid) == Len(grid)
GridWidth(grid) == IF Len(grid) > 0 THEN Len(grid[1]) ELSE 0

InitOn(grids) ==
    /\ pc = "open_file"
    /\ \E g \in grids :
          /\ input = [grid |-> g, damage |-> "none", lenpos |-> 0]
          /\ parser = [NoParser EXCEPT !.bmp_bytes = BmpOfGrid(g)]
    /\ lz = NoLz
    /\ compressor = NoComp
    /\ cfile = <<>>
    /\ result = NoResult

Init == InitOn(SmallGrids \cup BigGrids)

\* open_file: parser = BMPParser(filepath); parser.load()
OpenFile ==
    /\ pc = "open_file"
    /\ LET p == BMPParser_load(parser.bmp_bytes)
       IN  /\ parser' = [parser EXCEPT !.metadata = p.metadata,
                                       !.pixel_data = p.pixel_data,
                                       !.err = p.err]
           /\ pc' = IF p.err = "" THEN "opened" ELSE "load_failed"
    /\ UNCHANGED <<input, lz, compressor, cfile, result>>

\* the position of the payload-length field in a container written for c
LenFieldPos(c, version) ==
    24 + (IF version = 4 THEN 0 ELSE 3 * Len(c.palette))
       + (IF version \in {3, 5, 6} THEN 1 ELSE 0)

\* compress_file: compressor.compress(self.original_pixels, output, current_filepath)
CompressFile ==
    /\ pc = "opened"
    /\ LET r == compress(parser.pixel_data, parser.bmp_bytes)
       IN  /\ compressor' = [locals |-> r.locals, forced |-> FALSE,
                             version |-> r.locals.chosen_version]
           /\ cfile' = r.file
           /\ input' = [input EXCEPT
                           !.lenpos = LenFieldPos(r.locals, r.locals.chosen_version)]
    /\ pc' = "compressed"
    /\ UNCHANGED <<lz, parser, result>>

\* the grid encoded into a container of a forced version
ForceVersion ==
    /\ pc = "opened"
    /\ \E version \in {2, 3, 4, 5, 6} :
          LET c == CompressLocals(parser.pixel_data, parser.bmp_bytes)
          IN  /\ compressor' = [locals |-> c, forced |-> TRUE, version |-> version]
              /\ cfile' = ForcedContainer(c, version)
              /\ input' = [input EXCEPT !.lenpos = LenFieldPos(c, version)]
    /\ pc' = "compressed"
    /\ UNCHANGED <<lz, parser, result>>

\* BMPDecompressor().decompress(filepath) on the container just written
DecompressFile ==
    /\ pc \in {"compressed", "damaged"}
    /\ result' = decompress(cfile)
    /\ pc' = "decompressed"
    /\ UNCHANGED <<input, lz, parser, compressor, cfile>>

Next ==
    \/ OpenFile
    \/ CompressFile
    \/ ForceVersion
    \/ DecompressFile

Spec == Init /\ [][Next]_vars

\* C1: for every rectangular grid and every container version 2, 3, 4, 5 and 6,
\* decompress of the grid encoded into a container of that version returns the
\* grid, pixel for pixel, with its width and its height.
C1_RoundTripEveryVersion ==
    (pc = "decompressed" /\ compressor.forced) =>
        /\ result.err = ""
        /\ result.rows = input.grid
        /\ result.width = GridWidth(input.grid)
        /\ result.height = GridHeight(input.grid)

\* what the code does hold to: versions 3, 4, 5 and 6 round-trip
C1_RoundTripCurrentVersions ==
    (pc = "decompressed" /\ compressor.version # 2) =>
        /\ result.err = ""
        /\ result.rows = input.grid
        /\ result.width = GridWidth(input.grid)
        /\ result.height = GridHeight(input.grid)

\* the container on disk is the one compress wrote by its own choice
Written == pc \in {"compressed", "decompressed"} /\ ~compressor.forced

\* the version byte of the container
VersionTag(file) == At(file, 7)

\* the total size compress computed for the candidate `version`
ComputedSize(candidates, version) ==
    LET k == CHOOSE k \in 1..Len(candidates) : candidates[k][1] = version
    IN  candidates[k][2]

SomeCandidateBeats(candidates, original_size) ==
    \E k \in 1..Len(candidates) : candidates[k][2] < original_size

\* C3: whenever the smallest computed candidate size is strictly smaller than the
\* original file size, the version written to the container is a candidate of
\* the minimum computed size: no candidate among 3, 5, 6 and 4 is smaller.
C3_SelectorPicksMinimum ==
    (/\ Written
     /\ SomeCandidateBeats(compressor.locals.candidates, Len(parser.bmp_bytes))) =>
        /\ VersionTag(cfile) \in {3, 5, 6, 4}
        /\ \A k \in 1..Len(compressor.locals.candidates) :
              ComputedSize(compressor.locals.candidates, VersionTag(cfile))
                 <= compressor.locals.candidates[k][2]

\* the 2x2 image: ByteAligned beats the original and BitPacked beats ByteAligned
C3_Witness ==
    /\ Written
    /\ input.grid = ScenarioGrid
    /\ VersionTag(cfile) = 5
    /\ ComputedSize(compressor.locals.candidates, 3) < Len(parser.bmp_bytes)
    /\ ComputedSize(compressor.locals.candidates, 5)
          < ComputedSize(compressor.locals.candidates, 3)

\* C4: whenever the minimum candidate size is not strictly smaller than the
\* original file size, the container is version 4 with palette_count 0 and the
\* original file's bytes verbatim as its payload, whatever RawEmbed's own
\* computed size; compress ends normally.
C4_FallbackToRawEmbed ==
    (/\ Written
     /\ ~SomeCandidateBeats(compressor.locals.candidates, Len(parser.bmp_bytes))) =>
        /\ VersionTag(cfile) = 4
        /\ Slice(cfile, 20, 24) = <<0, 0, 0, 0>>
        /\ FromBytesBig(Slice(cfile, 24, 28)) = Len(parser.bmp_bytes)
        /\ Slice(cfile, 28, Len(cfile)) = parser.bmp_bytes
        /\ Len(cfile) = 28 + Len(parser.bmp_bytes)

\* 36 pixels of 36 colors: no candidate beats the 24-bpp original, and RawEmbed's
\* own computed size is not the least
C4_Witness ==
    /\ Written
    /\ input.grid = UniqueGrid(4, 9)
    /\ VersionTag(cfile) = 4
    /\ ~SomeCandidateBeats(compressor.locals.candidates, Len(parser.bmp_bytes))
    /\ ComputedSize(compressor.locals.candidates, 3)
          < ComputedSize(compressor.locals.candidates, 4)

\* C5: a container that compress writes with version 3, 5 or 6 has as many bytes
\* as the selector computed for that version, and fewer than the original file.
C5_WrittenSizeIsComputedSize ==
    (Written /\ VersionTag(cfile) \in {3, 5, 6}) =>
        /\ Len(cfile) = ComputedSize(compressor.locals.candidates, VersionTag(cfile))
        /\ Len(cfile) < Len(parser.bmp_bytes)

\* a run of one color: the match/literal coder's container is written
C5_Witness ==
    /\ Written
    /\ input.grid = RunGrid(43)
    /\ VersionTag(cfile) = 6
    /\ Len(cfile) < Len(parser.bmp_bytes)

\* the k-th pixel (from 1) of the grid in a row-major scan
ScanPixel(grid, k) ==
    grid[((k - 1) \div GridWidth(grid)) + 1][((k - 1) % GridWidth(grid)) + 1]

ScanLength(grid) == GridWidth(grid) * GridHeight(grid)

\* where the color is first met in the scan
FirstSighting(grid, color) ==
    CHOOSE k \in 1..ScanLength(grid) :
        /\ ScanPixel(grid, k) = color
        /\ \A j \in 1..(k - 1) : ScanPixel(grid, j) # color

\* C14: the palette built by compress has no duplicate color and lists the colors
\* in order of first appearance in a row-major scan; the index stream has
\* width*height entries with palette[index[i]] the i-th pixel; every palette
\* position is referenced, so the largest index is palette_count - 1.
C14_PaletteAndIndices ==
    (pc \in {"compressed", "decompressed"}) =>
        LET palette == compressor.locals.palette
            indices == compressor.locals.indices
            grid == input.grid
        IN  /\ \A i, j \in 1..Len(palette) : palette[i] = palette[j] => i = j
            /\ \A i \in 1..Len(palette) :
                  \E k \in 1..ScanLength(grid) : ScanPixel(grid, k) = palette[i]
            /\ \A i, j \in 1..Len(palette) :
                  i < j => FirstSighting(grid, palette[i]) < FirstSighting(grid, palette[j])
            /\ Len(indices) = ScanLength(grid)
            /\ \A k \in 1..Len(indices) :
                  /\ indices[k] \in 0..(Len(palette) - 1)
                  /\ palette[indices[k] + 1] = ScanPixel(grid, k)
            /\ \A i \in 1..Len(palette) : \E k \in 1..Len(indices) : indices[k] = i - 1
            /\ Len(indices) > 0 =>
                  /\ \E k \in 1..Len(indices) : indices[k] = Len(palette) - 1
                  /\ \A k \in 1..Len(indices) : indices[k] <= Len(palette) - 1

\* 43 pixels of three colors, the third repeated 41 times
C14_Witness ==
    /\ pc = "compressed"
    /\ input.grid = RunGrid(43)
    /\ Len(compressor.locals.palette) = 3
    /\ Len(compressor.locals.indices) = 43
    /\ compressor.locals.indices[43] = 2

(***************************************************************************)
(* SpecWidths: the index widths compress derives from a palette size, and  *)
(* an index written in each of them.                                       *)
(***************************************************************************)
MaxPalette == 260

InitWidths ==
    /\ pc = "widths"
    /\ \E palette_count \in 1..MaxPalette :
          \E idx \in {0, palette_count \div 2, palette_count - 1} :
             input = [palette_count |-> palette_count, idx |-> idx]
    /\ lz = NoLz
    /\ parser = NoParser
    /\ compressor = NoComp
    /\ cfile = <<>>
    /\ result = NoResult

\* bytes_per_index, bits_per_index and the two encodings of the index idx
ComputeWidths ==
    /\ pc = "widths"
    /\ LET bytes_per_index == BytesPerIndex(input.palette_count)
           bits_per_index == BitsPerIndex(input.palette_count)
       IN  compressor' =
              [bytes_per_index |-> bytes_per_index,
               bits_per_index |-> bits_per_index,
               raw_indices_payload |-> IndicesBytes(<<input.idx>>, bytes_per_index),
               packed_bits_payload |-> PackBits(<<input.idx>>, bits_per_index)]
    /\ pc' = "widths_done"
    /\ UNCHANGED <<input, lz, parser, cfile, result>>

NextWidths == ComputeWidths

SpecWidths == InitWidths /\ [][NextWidths]_vars

\* C15: for every palette size p >= 1 the bit width is b = max(1, bits_needed(p-1))
\* and the byte width is w = max(1, ceil(bits_needed(p-1) / 8)): b = 1 for one
\* color, w = 1 up to p = 256 and w = 2 at p = 257, and an index below p is
\* written in either width without losing a bit.
C15_IndexWidths ==
    (pc = "widths_done") =>
        LET p == input.palette_count
            b == compressor.bits_per_index
            w == compressor.bytes_per_index
            raw == compressor.raw_indices_payload
            packed == compressor.packed_bits_payload
        IN  /\ b >= 1 /\ p - 1 < Pow2(b)
            /\ b > 1 => p - 1 >= Pow2(b - 1)
            /\ w >= 1 /\ 8 * (w - 1) < b /\ b <= 8 * w
            /\ p = 1 => b = 1
            /\ p <= 256 => w = 1
            /\ p = 257 => w = 2
            /\ Len(raw) = w
            /\ 256 * At(raw, 0) + (IF w = 2 THEN At(raw, 1) ELSE 0)
                  = (IF w = 2 THEN input.idx ELSE 256 * input.idx)
            /\ Len(packed) = w
            /\ (256 * At(packed, 0) + (IF w = 2 THEN At(packed, 1) ELSE 0))
                  \div Pow2(16 - b) = input.idx

\* 257 colors: nine bits, two bytes, and the largest index 256 written whole
C15_Witness ==
    /\ pc = "widths_done"
    /\ input.palette_count = 257
    /\ input.idx = 256
    /\ compressor.bits_per_index = 9
    /\ compressor.bytes_per_index = 2
    /\ compressor.raw_indices_payload = <<1, 0>>
    /\ compressor.packed_bits_payload = <<128, 0>>

(***************************************************************************)
(* SpecLZW: _lzw_pack_indices_to_bits run on an index stream, then the     *)
(* version 2 decoder run on the bit stream it returned, one loop iteration *)
(* per step.                                                               *)
(***************************************************************************)
MaxLzwLen == 6

LzwIndices == 0..3

\* the index streams compress can hand over: index 0 first, and a new index is
\* always the next one not used so far
RECURSIVE IndexStreams(_)
IndexStreams(n) ==
    IF n = 1 THEN {<<0>>}
    ELSE LET shorter == IndexStreams(n - 1)
             longest == {t \in shorter : Len(t) = n - 1}
         IN  shorter \cup
             UNION {{Append(s, i) : i \in {j \in LzwIndices : j <= SeqMax(s) + 1}} :
                       s \in longest}

InitLZW ==
    /\ pc = "lzw_pack"
    /\ \E data \in IndexStreams(MaxLzwLen) :
          /\ input = [data |-> data, palette_len |-> SeqMax(data) + 1]
          /\ lz = [enc |-> LzwEncInit(data), dec |-> LzwDecInit(<<>>, 0)]
    /\ parser = NoParser
    /\ compressor = NoComp
    /\ cfile = <<>>
    /\ result = NoResult

\* one iteration of `for c in data[1:]`
LzwPackStep ==
    /\ pc = "lzw_pack"
    /\ lz.enc.i < Len(lz.enc.data)
    /\ lz' = [lz EXCEPT !.enc = LzwEncStep(lz.enc)]
    /\ UNCHANGED <<pc, input, parser, compressor, cfile, result>>

\* the last code is written and the bytes returned; the version 2 decoder starts
\* on them with the palette's length and reads the first code
LzwPackReturn ==
    /\ pc = "lzw_pack"
    /\ lz.enc.i >= Len(lz.enc.data)
    /\ LET e == LzwEncFinish(lz.enc)
       IN  /\ cfile' = e.w.out
           /\ lz' = [enc |-> e, dec |-> LzwDecInit(e.w.out, input.palette_len)]
    /\ pc' = "lzw_unpack"
    /\ UNCHANGED <<input, parser, compressor, result>>

\* one iteration of `while True`
LzwUnpackStep ==
    /\ pc = "lzw_unpack"
    /\ ~lz.dec.done
    /\ lz' = [lz EXCEPT !.dec = LzwDecStep(lz.dec)]
    /\ UNCHANGED <<pc, input, parser, compressor, cfile, result>>

\* the loop is left: the indices decoded, or the ValueError
LzwUnpackReturn ==
    /\ pc = "lzw_unpack"
    /\ lz.dec.done
    /\ result' = [err |-> lz.dec.err,
                  result_indices |-> IF lz.dec.err = "" THEN lz.dec.result_indices
                                     ELSE <<>>]
    /\ pc' = "lzw_done"
    /\ UNCHANGED <<input, lz, parser, compressor, cfile>>

NextLZW ==
    \/ LzwPackStep
    \/ LzwPackReturn
    \/ LzwUnpackStep
    \/ LzwUnpackReturn

SpecLZW == InitLZW /\ [][NextLZW]_vars

\* C18: the version 2 decoder reads the k-th code with exactly the code width the
\* encoder used to write the k-th code, for every k.
C18_DecoderWidthMirrorsEncoder ==
    (pc \in {"lzw_unpack", "lzw_done"}) =>
        \A k \in 1..Len(lz.enc.codes) :
            k <= Len(lz.dec.widths) => lz.dec.widths[k] = lz.enc.codes[k][2]

\* C19: in the legacy encoder every code is smaller than 2^code_width at the
\* moment it is written, for every index stream and every initial dictionary
\* size, the exact powers of two included.
C19_CodeFitsItsWidth ==
    \A k \in 1..Len(lz.enc.codes) :
        lz.enc.codes[k][1] < Pow2(lz.enc.codes[k][2])

\* what the code does hold to: a code fits when the initial dictionary size is 1
\* or is not a power of two
C19_CodeFitsUnlessPowerOfTwo ==
    (input.palette_len \in {1, 3}) =>
        \A k \in 1..Len(lz.enc.codes) :
            lz.enc.codes[k][1] < Pow2(lz.enc.codes[k][2])

(***************************************************************************)
(* SpecRead: decompress on a container that does not keep its promises.    *)
(* A grid is encoded into a container of each version, and the file handed *)
(* to decompress is that container cut short, or with its payload-length   *)
(* field or its palette_count field raised.                                *)
(***************************************************************************)
\* the 2x2 image, one pixel, a row without pixels, five colors (3-bit indices)
ReadGrids == {ScenarioGrid, << << <<255, 0, 0>> >> >>, << <<>> >>, UniqueGrid(5, 1)}

InitRead == InitOn(ReadGrids)

\* data with the 4-byte big-endian field at pos set to n
SetField(data, pos, n) ==
    Slice(data, 0, pos) \o ToBytesBig(n, 4) \o Slice(data, pos + 4, Len(data))

\* the width and the height the header of a container declares
HeaderWidth(file) == FromBytesBig(Slice(file, 12, 16))
HeaderHeight(file) == FromBytesBig(Slice(file, 16, 20))

\* data with other dimensions in its header, from none to one column and one row
\* more than it had: the payload then holds fewer indices than the header
\* asks for, or more
Resized(data) ==
    {[kind |-> "dimensions",
      data |-> SetField(SetField(data, 12, w), 16, h)] :
        <<w, h>> \in ((0..(HeaderWidth(data) + 1)) \X (0..(HeaderHeight(data) + 1)))
                        \ {<<HeaderWidth(data), HeaderHeight(data)>>}}

\* the values tried for the width byte of versions 3, 5 and 6
WidthBytes == {0, 1, 2, 3, 255}

\* data with another value in the width byte that precedes the payload length
Rewidthed(data, lenpos) ==
    IF At(data, 7) \in {3, 5, 6}
    THEN {[kind |-> "index_width",
           data |-> Slice(data, 0, lenpos - 1) \o <<b>> \o Slice(data, lenpos, Len(data))] :
             b \in WidthBytes \ {At(data, lenpos - 1)}}
    ELSE {}

\* the files decompress is given: data ending early (the magic is kept), the
\* payload-length field at lenpos declaring more than the bytes after it, the
\* palette_count field declaring more entries than the bytes after it hold
Damaged(data, lenpos) ==
    LET remain == Len(data) - (lenpos + 4)
        entries == (Len(data) - 24) \div 3
    IN  {[kind |-> "truncated", data |-> Slice(data, 0, k)] :
            k \in 7..(Len(data) - 1)}
        \cup {[kind |-> "payload_len", data |-> SetField(data, lenpos, n)] :
                 n \in {remain + 1, remain + 2, remain + 256, 65536}}
        \cup {[kind |-> "palette_count", data |-> SetField(data, 20, n)] :
                 n \in {entries + 1, entries + 2, entries + 256, 65536}}
        \cup Resized(data)
        \cup Rewidthed(data, lenpos)

\* BMPDecompressor().decompress(filepath) on a damaged container
ReadContainer ==
    /\ pc = "compressed"
    /\ \E d \in Damaged(cfile, input.lenpos) :
          /\ cfile' = d.data
          /\ input' = [input EXCEPT !.damage = d.kind]
          /\ result' = decompress(d.data)
    /\ pc' = "decompressed"
    /\ UNCHANGED <<lz, parser, compressor>>

NextRead ==
    \/ OpenFile
    \/ CompressFile
    \/ ForceVersion
    \/ ReadContainer

SpecRead == InitRead /\ [][NextRead]_vars

\* the header and the palette section of the file are whole, the payload-length
\* field is whole too, and it declares more bytes than remain after it
LengthPastEnd(file, lenpos) ==
    /\ Len(file) >= lenpos + 4
    /\ VersionTag(file) \in {2, 3, 4, 5, 6}
    /\ 24 + 3 * FromBytesBig(Slice(file, 20, 24)) <= lenpos
    /\ FromBytesBig(Slice(file, lenpos, lenpos + 4)) > Len(file) - (lenpos + 4)

\* C9: for every container version 2, 3, 4, 5 and 6, if the payload-length field
\* declares more bytes than remain in the input after it, decompress fails with
\* the corrupt-payload error and returns no grid.
C9_LengthPastEndIsCorruptPayload ==
    (pc = "decompressed" /\ LengthPastEnd(cfile, input.lenpos)) =>
        /\ result.err = "Corrupt file: truncated payload"
        /\ result.rows = <<>>

\* a version 2 container whose length field was raised
C9_Witness ==
    /\ pc = "decompressed"
    /\ input.damage = "payload_len"
    /\ VersionTag(cfile) = 2
    /\ LengthPastEnd(cfile, input.lenpos)
    /\ result.err = "Corrupt file: truncated payload"

\* the input ends before the 24 bytes of the fixed header, or palette_count
\* declares more 3-byte entries than the bytes after the header hold
HeaderPastEnd(file) ==
    /\ Slice(file, 0, 7) = Magic
    /\ \/ Len(file) < 24
       \/ 24 + 3 * FromBytesBig(Slice(file, 20, 24)) > Len(file)

\* C10: if the input ends before the fixed header is complete, or palette_count
\* declares more palette entries than the bytes that remain, decompress fails
\* with the corrupt-payload error and with no other failure.
C10_HeaderPastEndIsCorruptPayload ==
    (pc = "decompressed" /\ HeaderPastEnd(cfile)) =>
        result.err \in CorruptPayloadErrors

\* the grid of height rows of width pixels that holds the pixels in row-major
\* order, black where the pixels have run out
FilledGrid(pixels, width, height) ==
    [r \in 1..height |->
        [c \in 1..width |->
            IF (r - 1) * width + c <= Len(pixels)
            THEN pixels[(r - 1) * width + c] ELSE <<0, 0, 0>>]]

C11_ShortPayloadFilledBlackV36 ==
    (/\ pc = "decompressed"
     /\ input.damage = "dimensions"
     /\ VersionTag(cfile) \in {3, 6}) =>
        /\ result.err = ""
        /\ result.rows = FilledGrid(Symbols(input.grid), HeaderWidth(cfile),
                                    HeaderHeight(cfile))

\* bit j (from 0) of the payload, the most significant bit of a byte first
PayloadBit(payload, j) == (At(payload, j \div 8) \div Pow2(7 - (j % 8))) % 2

\* the number whose b bits, most significant first, start at bit `first`
RECURSIVE BitField(_, _, _)
BitField(payload, first, b) ==
    IF b = 0 THEN 0
    ELSE 2 * BitField(payload, first, b - 1) + PayloadBit(payload, first + b - 1)

\* the color an index stands for
ColorOfIndex(palette, idx) ==
    IF idx < Len(palette) THEN palette[idx + 1] ELSE <<0, 0, 0>>

\* C16: version 5 decode extracts exactly width*height indices from the payload,
\* most significant bit first, and nothing after them; if the payload holds fewer
\* than width*height whole indices it fails with the corrupt-payload error and
\* returns no grid.
C16_BitPackedDecode ==
    (/\ pc = "decompressed"
     /\ input.damage = "dimensions"
     /\ VersionTag(cfile) = 5) =>
        LET b == At(cfile, input.lenpos - 1)
            payload == Slice(cfile, input.lenpos + 4, Len(cfile))
            expected == HeaderWidth(cfile) * HeaderHeight(cfile)
            held == (8 * Len(payload)) \div b
        IN  IF held < expected
            THEN /\ result.err = "Corrupt payload: not enough indices in bit-packed payload"
                 /\ result.rows = <<>>
            ELSE /\ result.err = ""
                 /\ result.rows =
                       FilledGrid([k \in 1..expected |->
                                      ColorOfIndex(compressor.locals.palette,
                                                   BitField(payload, (k - 1) * b, b))],
                                  HeaderWidth(cfile), HeaderHeight(cfile))

\* the four 2-bit indices of the 2x2 image read under a header that asks for 3x3
C16_Witness ==
    /\ pc = "decompressed"
    /\ input.damage = "dimensions"
    /\ input.grid = ScenarioGrid
    /\ VersionTag(cfile) = 5
    /\ HeaderWidth(cfile) = 3 /\ HeaderHeight(cfile) = 3
    /\ result.err = "Corrupt payload: not enough indices in bit-packed payload"

\* the index bytes a version 3 or 6 container of the opened grid carries
IndexBytesWritten == compressor.locals.raw_indices_payload

\* the colors of the w-byte big-endian indices the bytes split into
ChunkColors(palette, bytes, w) ==
    [k \in 1..(Len(bytes) \div w) |->
        ColorOfIndex(palette, FromBytesBig(Slice(bytes, (k - 1) * w, k * w)))]

\* C17: for versions 3 and 6 and every value w of the bytes_per_index byte, decode
\* either splits the index bytes into whole w-byte big-endian indices or fails
\* with the corrupt-payload error when their length is not a multiple of w; no
\* other failure occurs, w = 0 included.
C17_IndexWidthByteHandled ==
    (/\ pc = "decompressed"
     /\ input.damage = "index_width"
     /\ VersionTag(cfile) \in {3, 6}) =>
        LET w == At(cfile, input.lenpos - 1)
        IN  /\ result.err \in
                  {"", "Corrupt payload: indices length not multiple of bytes_per_index"}
            /\ (w > 0 /\ Len(IndexBytesWritten) % w # 0) =>
                  result.err # ""
            /\ result.err = "" =>
                  result.rows =
                     FilledGrid(IF w = 0 THEN <<>>
                                ELSE ChunkColors(compressor.locals.palette,
                                                 IndexBytesWritten, w),
                                HeaderWidth(cfile), HeaderHeight(cfile))

\* what the code does hold to: every width byte but 0
C17_PositiveIndexWidthByteHandled ==
    (/\ pc = "decompressed"
     /\ input.damage = "index_width"
     /\ VersionTag(cfile) \in {3, 6}
     /\ At(cfile, input.lenpos - 1) > 0) =>
        LET w == At(cfile, input.lenpos - 1)
        IN  IF Len(IndexBytesWritten) % w # 0
            THEN result.err =
                    "Corrupt payload: indices length not multiple of bytes_per_index"
            ELSE /\ result.err = ""
                 /\ result.rows =
                       FilledGrid(ChunkColors(compressor.locals.palette,
                                              IndexBytesWritten, w),
                                  HeaderWidth(cfile), HeaderHeight(cfile))

====
